---- MODULE Spec2Model ----
(***************************************************************************)
(* Model of src/xiaomi/auth.py: class XiaomiAuth, a relay between a caller *)
(* and the MiCloud provider.  The object's state is (region, mc); login()  *)
(* and get_devices() are the two operations.  The provider is the          *)
(* environment: every behaviour it can show (handle creation fault,        *)
(* handshake fault, falsy handshake result, success with any combination   *)
(* of fields and cookies) is an input chosen nondeterministically.         *)
(***************************************************************************)
EXTENDS Integers, Sequences, FiniteSets, TLC

VARIABLES
    region,   \* self.region
    mc,       \* self.mc: 0 is None, h > 0 is the handle created by the h-th login() call
    nLogin,   \* number of login() calls made so far
    goodId,   \* handle of the most recent login() that returned a record, 0 if none
    prov,     \* what the provider did during the last login() call
    req,      \* argument and provider behaviour of the last get_devices() call
    calls,    \* provider calls made by the last operation, in order
    last      \* outcome of the last operation as seen by the caller

vars == <<region, mc, nLogin, goodId, prov, req, calls, last>>

(* Bound on the number of login() calls of one behaviour. *)
MaxLogins == 3

-----------------------------------------------------------------------------
(* Python values: None, str, int, bool, in one record shape. *)

PyNone == [t |-> "none", i |-> 0, s |-> ""]

PyStr(x) == [t |-> "str", i |-> 0, s |-> x]

PyInt(n) == [t |-> "int", i |-> n, s |-> ""]

PyBool(b) == [t |-> "bool", i |-> IF b THEN 1 ELSE 0, s |-> ""]

(* Python truth value: None, "", 0 and False are falsy. *)
Truthy(v) ==
    CASE v.t = "none" -> FALSE
      [] v.t = "str"  -> v.s # ""
      [] v.t = "int"  -> v.i # 0
      [] v.t = "bool" -> v.i # 0

(* a or b *)
PyOr(a, b) == IF Truthy(a) THEN a ELSE b

Digit(d) ==
    CASE d = 0 -> "0" [] d = 1 -> "1" [] d = 2 -> "2" [] d = 3 -> "3"
      [] d = 4 -> "4" [] d = 5 -> "5" [] d = 6 -> "6" [] d = 7 -> "7"
      [] d = 8 -> "8" [] d = 9 -> "9"

RECURSIVE IntToStr(_)
IntToStr(n) == IF n < 10 THEN Digit(n) ELSE IntToStr(n \div 10) \o Digit(n % 10)

(* str(v) *)
PyStrOf(v) ==
    CASE v.t = "none" -> "None"
      [] v.t = "str"  -> v.s
      [] v.t = "int"  -> IntToStr(v.i)
      [] v.t = "bool" -> IF v.i # 0 THEN "True" ELSE "False"

-----------------------------------------------------------------------------
(* Exceptions *)

NoExc == [cls |-> "", msg |-> ""]

LoginFailedExc == [cls |-> "Exception", msg |-> "Login failed - no result returned"]

NotLoggedInExc == [cls |-> "Exception", msg |-> "Not logged in - call login() first"]

(* Faults the provider can raise. *)
Faults ==
    { [cls |-> "MiCloudAccessDenied", msg |-> "Access denied"],
      [cls |-> "ConnectionError", msg |-> "timed out"] }

-----------------------------------------------------------------------------
(* The provider during one login() call. *)

Regions == {"cn", "de"}

UserIds == {PyNone, PyInt(0), PyInt(12345), PyStr("u7")}

ServiceTokens == {PyNone, PyStr(""), PyStr("svc-abc")}

Ssecurities == {PyNone, PyStr(""), PyStr("sec-xyz")}

CookiePassTokens == {PyNone, PyStr(""), PyStr("cookie-pt")}

CookieServiceTokens == {PyNone, PyStr(""), PyStr("cookie-st")}

NoCookies == [passToken |-> PyNone, serviceToken |-> PyNone]

(* session: "noattr" the handle has no session attribute, "none" it is None,
   "session" it is a session whose cookies.get_dict() is `cookies`
   (a key mapped to PyNone is a key the dict does not have). *)
BaseProv ==
    [ctor |-> "ok", ctorExc |-> NoExc,
     login |-> "return", loginRet |-> PyNone, loginExc |-> NoExc,
     user_id |-> PyNone, service_token |-> PyNone, ssecurity |-> PyNone,
     session |-> "none", cookies |-> NoCookies]

NoLogin == [BaseProv EXCEPT !.ctor = "-", !.login = "-"]

ProvCtorFault == { [BaseProv EXCEPT !.ctor = "raise", !.ctorExc = e, !.login = "-"] : e \in Faults }

ProvHandshakeFault == { [BaseProv EXCEPT !.login = "raise", !.loginExc = e] : e \in Faults }

ProvNoResult == { [BaseProv EXCEPT !.loginRet = r] : r \in {PyNone, PyBool(FALSE)} }

ProvSuccess ==
    { [BaseProv EXCEPT !.loginRet = PyBool(TRUE), !.user_id = u, !.service_token = st,
                       !.ssecurity = ss, !.session = "session",
                       !.cookies = [passToken |-> cp, serviceToken |-> cs]] :
        u \in UserIds, st \in ServiceTokens, ss \in Ssecurities,
        cp \in CookiePassTokens, cs \in CookieServiceTokens }
    \cup
    { [BaseProv EXCEPT !.loginRet = PyBool(TRUE), !.user_id = u, !.service_token = st,
                       !.ssecurity = ss, !.session = se] :
        u \in UserIds, st \in ServiceTokens, ss \in Ssecurities, se \in {"noattr", "none"} }

ProvLogins == ProvCtorFault \cup ProvHandshakeFault \cup ProvNoResult \cup ProvSuccess

-----------------------------------------------------------------------------
(* login() *)

NoToken == <<>>

(* cookies.get(key) *)
CookieGet(b, key) == IF key = "passToken" THEN b.cookies.passToken ELSE b.cookies.serviceToken

(* Variant: the cookie 'serviceToken' is consulted before the cookie 'passToken'. *)
CookiePassTokenSwapped(b) ==
    IF b.session = "session"
    THEN PyOr(CookieGet(b, "serviceToken"), CookieGet(b, "passToken"))
    ELSE PyNone

(* lines 56-59 *)
CookiePassToken(b) ==
    IF b.session = "session"
    THEN PyOr(CookieGet(b, "passToken"), CookieGet(b, "serviceToken"))
    ELSE PyNone

(* Variant: no fallback to the provider's service_token field. *)
PassTokenNoFallback(b) == CookiePassToken(b)

(* lines 62-63 *)
PassToken(b) ==
    IF ~Truthy(CookiePassToken(b)) THEN b.service_token ELSE CookiePassToken(b)

(* Variant: ssecurity is copied without the `if ssecurity else ""` default. *)
TokenDataRawSsecurity(b) ==
    [userId       |-> IF Truthy(b.user_id) THEN PyStr(PyStrOf(b.user_id)) ELSE PyStr(""),
     passToken    |-> IF Truthy(PassToken(b)) THEN PassToken(b) ELSE PyStr(""),
     ssecurity    |-> b.ssecurity,
     serviceToken |-> IF Truthy(b.service_token) THEN b.service_token ELSE PyStr("")]

(* lines 65-70 *)
TokenData(b) ==
    [userId       |-> IF Truthy(b.user_id) THEN PyStr(PyStrOf(b.user_id)) ELSE PyStr(""),
     passToken    |-> IF Truthy(PassToken(b)) THEN PassToken(b) ELSE PyStr(""),
     ssecurity    |-> IF Truthy(b.ssecurity) THEN b.ssecurity ELSE PyStr(""),
     serviceToken |-> IF Truthy(b.service_token) THEN b.service_token ELSE PyStr("")]

(* Variant: the handler raises a new exception built from the caught one. *)
ReRaiseWrapped(e) == [cls |-> "Exception", msg |-> "Login failed: " \o e.msg]

(* except Exception as e: ... raise *)
ReRaise(e) == e

(* Variant: a falsy handshake result is retried once. *)
LoginCallsRetry(b, h) ==
    IF b.ctor = "raise"
    THEN << [fn |-> "MiCloud", h |-> h, arg |-> PyNone] >>
    ELSE IF b.login = "return" /\ ~Truthy(b.loginRet)
    THEN << [fn |-> "MiCloud", h |-> h, arg |-> PyNone],
            [fn |-> "login", h |-> h, arg |-> PyNone],
            [fn |-> "login", h |-> h, arg |-> PyNone] >>
    ELSE << [fn |-> "MiCloud", h |-> h, arg |-> PyNone],
            [fn |-> "login", h |-> h, arg |-> PyNone] >>

(* The provider calls login() makes, in order, on handle h. *)
LoginCalls(b, h) ==
    IF b.ctor = "raise"
    THEN << [fn |-> "MiCloud", h |-> h, arg |-> PyNone] >>
    ELSE << [fn |-> "MiCloud", h |-> h, arg |-> PyNone],
            [fn |-> "login", h |-> h, arg |-> PyNone] >>

(* What the caller of login() gets. *)
LoginResult(b) ==
    IF b.ctor = "raise"
    THEN [op |-> "login", kind |-> "raise", token |-> NoToken, devices |-> <<>>,
          exc |-> ReRaise(b.ctorExc)]
    ELSE IF b.login = "raise"
    THEN [op |-> "login", kind |-> "raise", token |-> NoToken, devices |-> <<>>,
          exc |-> ReRaise(b.loginExc)]
    ELSE IF ~Truthy(b.loginRet)
    THEN [op |-> "login", kind |-> "raise", token |-> NoToken, devices |-> <<>>,
          exc |-> ReRaise(LoginFailedExc)]
    ELSE [op |-> "login", kind |-> "return", token |-> TokenData(b), devices |-> <<>>,
          exc |-> NoExc]

(* Variant: self.mc is assigned only when the login succeeds. *)
StoredHandleOnSuccess(old, b, h) == IF LoginResult(b).kind = "return" THEN h ELSE old

(* self.mc after login(): assigned as soon as the handle exists (line 40). *)
StoredHandle(old, b, h) == IF b.ctor = "raise" THEN old ELSE h

-----------------------------------------------------------------------------
(* get_devices() *)

Countries == {PyNone, PyStr(""), PyStr("de"), PyStr("us")}

DeviceLists == { <<>>, <<"scale">>, <<"scale", "band">> }

(* What the provider's get_devices does: returns None, returns a list, raises. *)
ProvDevices ==
    { [kind |-> "return", none |-> TRUE, items |-> <<>>, exc |-> NoExc] }
    \cup { [kind |-> "return", none |-> FALSE, items |-> d, exc |-> NoExc] : d \in DeviceLists }
    \cup { [kind |-> "raise", none |-> FALSE, items |-> <<>>, exc |-> e] : e \in Faults }

NoReq == [country |-> PyNone, gd |-> [kind |-> "-", none |-> FALSE, items |-> <<>>, exc |-> NoExc]]

(* Variant: the country argument is ignored. *)
QueryCountryRegionOnly(country, reg) == PyStr(reg)

(* line 93: country = country or self.region *)
QueryCountry(country, reg) == PyOr(country, PyStr(reg))

(* The provider calls get_devices() makes (none when the guard of line 90 raises). *)
DeviceCalls(m, country, reg) ==
    IF m = 0 THEN <<>>
    ELSE << [fn |-> "get_devices", h |-> m, arg |-> QueryCountry(country, reg)] >>

(* Variant: a provider fault is not caught. *)
DevicesOfPropagate(gd) ==
    IF gd.kind = "raise" THEN [kind |-> "raise", devices |-> <<>>, exc |-> gd.exc]
    ELSE IF gd.none \/ gd.items = <<>> THEN [kind |-> "return", devices |-> <<>>, exc |-> NoExc]
    ELSE [kind |-> "return", devices |-> gd.items, exc |-> NoExc]

(* lines 95-101 *)
DevicesOf(gd) ==
    IF gd.kind = "raise" THEN [kind |-> "return", devices |-> <<>>, exc |-> NoExc]
    ELSE IF gd.none \/ gd.items = <<>> THEN [kind |-> "return", devices |-> <<>>, exc |-> NoExc]
    ELSE [kind |-> "return", devices |-> gd.items, exc |-> NoExc]

(* What the caller of get_devices() gets. *)
GetDevicesResult(m, gd) ==
    IF m = 0
    THEN [op |-> "get_devices", kind |-> "raise", token |-> NoToken, devices |-> <<>>,
          exc |-> NotLoggedInExc]
    ELSE [op |-> "get_devices", kind |-> DevicesOf(gd).kind, token |-> NoToken,
          devices |-> DevicesOf(gd).devices, exc |-> DevicesOf(gd).exc]

-----------------------------------------------------------------------------
(* The state machine *)

NoOp == [op |-> "init", kind |-> "-", token |-> NoToken, devices |-> <<>>, exc |-> NoExc]

Init ==
    /\ region \in Regions
    /\ mc = 0
    /\ nLogin = 0
    /\ goodId = 0
    /\ prov = NoLogin
    /\ req = NoReq
    /\ calls = <<>>
    /\ last = NoOp

Login ==
    /\ nLogin < MaxLogins
    /\ \E b \in ProvLogins :
        /\ nLogin' = nLogin + 1
        /\ mc' = StoredHandle(mc, b, nLogin + 1)
        /\ calls' = LoginCalls(b, nLogin + 1)
        /\ last' = LoginResult(b)
        /\ goodId' = IF LoginResult(b).kind = "return" THEN nLogin + 1 ELSE goodId
        /\ prov' = b
        /\ req' = NoReq
    /\ UNCHANGED region

GetDevices ==
    /\ \E country \in Countries, gd \in ProvDevices :
        /\ req' = [country |-> country,
                   gd |-> IF mc = 0 THEN NoReq.gd ELSE gd]
        /\ calls' = DeviceCalls(mc, country, region)
        /\ last' = GetDevicesResult(mc, gd)
    /\ prov' = NoLogin
    /\ UNCHANGED <<region, mc, nLogin, goodId>>

Next == Login \/ GetDevices

Spec == Init /\ [][Next]_vars

-----------------------------------------------------------------------------
(* Properties *)

LoginReturned == last.op = "login" /\ last.kind = "return"

LoginRaised == last.op = "login" /\ last.kind = "raise"

DevicesCalled == last.op = "get_devices"

NonEmpty(v) == v.t = "str" /\ v.s # ""

TokenKeys == {"userId", "passToken", "ssecurity", "serviceToken"}

(* The cookie value the session exposes under key, PyNone when there is no
   session or no cookie mapping. *)
ExposedCookie(b, key) ==
    IF b.session = "session" THEN b.cookies[key] ELSE PyNone

(* First non-empty value of: cookie passToken, cookie serviceToken, the
   provider's serviceToken field; the empty string when none is. *)
ChainPassToken(b) ==
    IF NonEmpty(ExposedCookie(b, "passToken")) THEN ExposedCookie(b, "passToken")
    ELSE IF NonEmpty(ExposedCookie(b, "serviceToken")) THEN ExposedCookie(b, "serviceToken")
    ELSE IF NonEmpty(b.service_token) THEN b.service_token
    ELSE PyStr("")

(* C1: for every successful login, the record's passToken is the first
   non-empty value of the chain cookie passToken, cookie serviceToken,
   provider serviceToken field, and the empty string when all are empty or
   absent. *)
C1_PassTokenChain == LoginReturned => last.token.passToken = ChainPassToken(prov)

(* The second link of the chain decided: cookie passToken empty or absent,
   cookie serviceToken used although the field differs. *)
C1_Witness ==
    /\ LoginReturned
    /\ ~NonEmpty(prov.cookies.passToken)
    /\ prov.service_token = PyStr("svc-abc")
    /\ last.token.passToken = PyStr("cookie-st")

(* C2: get_devices called before any login() has completed successfully
   raises the not-logged-in error, whatever came before. *)
C2_NotAuthenticated ==
    DevicesCalled /\ goodId = 0 => last.kind = "raise" /\ last.exc = NotLoggedInExc

(* C3: in every returned record, a non-empty serviceToken implies a
   non-empty passToken. *)
C3_FallbackInvariant ==
    LoginReturned /\ last.token.serviceToken.s # "" => last.token.passToken.s # ""

(* No usable cookie: the passToken comes from the serviceToken field. *)
C3_Witness ==
    /\ LoginReturned
    /\ prov.session # "session"
    /\ last.token.serviceToken = PyStr("svc-abc")
    /\ last.token.passToken = PyStr("svc-abc")

(* C4: every returned record has exactly the keys userId, passToken,
   ssecurity, serviceToken, each a string; an absent provider field becomes
   the empty string. *)
C4_FourStringFields ==
    LoginReturned =>
        /\ DOMAIN last.token = TokenKeys
        /\ \A k \in TokenKeys : last.token[k].t = "str"
        /\ (prov.user_id = PyNone => last.token.userId = PyStr(""))
        /\ (prov.ssecurity = PyNone => last.token.ssecurity = PyStr(""))
        /\ (prov.service_token = PyNone => last.token.serviceToken = PyStr(""))

(* Every provider field absent, every record field the empty string. *)
C4_Witness ==
    /\ LoginReturned
    /\ prov.user_id = PyNone /\ prov.ssecurity = PyNone /\ prov.service_token = PyNone
    /\ prov.session # "session"
    /\ \A k \in TokenKeys : last.token[k] = PyStr("")

HandshakeCount == Cardinality({ i \in DOMAIN calls : calls[i].fn = "login" })

ProviderGaveNoResult ==
    last.op = "login" /\ prov.ctor = "ok" /\ prov.login = "return" /\ ~Truthy(prov.loginRet)

(* C5: when the provider's login returns an empty/false result, login()
   raises the login-failed error, returns no record, and has called the
   provider's login exactly once. *)
C5_LoginFailedNoRetry ==
    ProviderGaveNoResult =>
        /\ last.kind = "raise"
        /\ last.exc = LoginFailedExc
        /\ DOMAIN last.token = {}
        /\ HandshakeCount = 1

(* The provider returned False and the caller got the error. *)
C5_Witness ==
    /\ ProviderGaveNoResult
    /\ prov.loginRet = PyBool(FALSE)
    /\ last.kind = "raise"

(* C6: with a handle stored, get_devices never raises; a provider result
   of None or an empty list and a provider fault both give the empty list. *)
C6_DevicesNeverRaise ==
    DevicesCalled /\ mc # 0 =>
        /\ last.kind = "return"
        /\ (req.gd.kind = "raise" \/ req.gd.none \/ req.gd.items = <<>> => last.devices = <<>>)

(* The provider raised and the caller got the empty list. *)
C6_Witness ==
    /\ DevicesCalled /\ mc # 0
    /\ req.gd.kind = "raise"
    /\ last.kind = "return" /\ last.devices = <<>>

ProviderFault ==
    IF prov.ctor = "raise" THEN prov.ctorExc
    ELSE IF prov.login = "raise" THEN prov.loginExc
    ELSE NoExc

(* C7: a fault the provider raises while the handle is created or during
   the handshake reaches the caller of login() as that same fault, and no
   record is returned. *)
C7_FaultPropagatedUnchanged ==
    last.op = "login" /\ ProviderFault # NoExc =>
        /\ last.kind = "raise"
        /\ last.exc = ProviderFault
        /\ DOMAIN last.token = {}

(* The handshake raised and the caller got that fault. *)
C7_Witness ==
    /\ last.op = "login"
    /\ prov.login = "raise"
    /\ last.kind = "raise"
    /\ last.exc = prov.loginExc
    /\ last.exc \in Faults

ProviderQueried == DevicesCalled /\ calls # <<>>

(* C8 as stated: without a country the provider is queried with the
   region, with a country supplied it is queried with that country. *)
C8_CountryAsStated ==
    ProviderQueried =>
        calls[1].arg = IF req.country = PyNone THEN PyStr(region) ELSE req.country

(* C8 amended: without a country, or with the empty string as country, the
   provider is queried with the region; with a non-empty country it is
   queried with that country. *)
C8_CountryDefaultsToRegion ==
    ProviderQueried =>
        /\ Len(calls) = 1 /\ calls[1].fn = "get_devices"
        /\ calls[1].arg = IF NonEmpty(req.country) THEN req.country ELSE PyStr(region)

(* A country other than the region was supplied and used. *)
C8_Witness ==
    /\ ProviderQueried
    /\ region = "cn"
    /\ req.country = PyStr("us")
    /\ calls[1].arg = PyStr("us")

(* C9: for every successful login, userId is the string form of the
   provider's user id whenever the id is present, 0 included, and the empty
   string only when the id is absent. *)
C9_UserIdString ==
    LoginReturned =>
        last.token.userId =
            IF prov.user_id = PyNone THEN PyStr("") ELSE PyStr(PyStrOf(prov.user_id))

IsLoginStep == nLogin' = nLogin + 1

IsDevicesStep == nLogin' = nLogin

(* C10 as stated: every login() call stores a newly created handle,
   whatever the outcome, and get_devices changes neither the handle nor the
   region. *)
C10_HandleAsStated ==
    [][ /\ (IsLoginStep => mc' = nLogin' /\ mc' # mc)
        /\ (IsDevicesStep => mc' = mc /\ region' = region) ]_vars

(* C10 amended: every login() call whose handle creation succeeds stores
   the new handle before the handshake, which runs on it, whether the
   handshake then succeeds or not; a login() whose handle creation raises
   leaves the stored handle as it was; get_devices queries the stored
   handle and changes neither the handle nor the region. *)
C10_HandleReplaced ==
    [][ /\ (IsLoginStep /\ prov'.ctor = "ok" =>
               /\ mc' = nLogin' /\ mc' # mc
               /\ Len(calls') = 2
               /\ calls'[2].fn = "login" /\ calls'[2].h = mc')
        /\ (IsLoginStep /\ prov'.ctor = "raise" => mc' = mc)
        /\ (IsDevicesStep =>
               /\ mc' = mc /\ region' = region
               /\ (mc # 0 => calls'[1].h = mc)) ]_vars

(* A login succeeded, a later one failed at the handshake, and get_devices
   then queried the handle of the failed attempt. *)
C10_Witness ==
    /\ ProviderQueried
    /\ goodId # 0
    /\ mc # goodId
    /\ calls[1].h = mc

====
